---- MODULE Spec2Model ----
(***************************************************************************)
(* A model of seri (seri-26/include/seri/seri.hpp): the json_writer, the   *)
(* descriptor model (type_descriptor, enum_descriptor), the category       *)
(* dispatch of serialize<T> and the recursive encoder.                     *)
(*                                                                         *)
(* Text is a sequence of bytes; a byte is written as a one-character       *)
(* string, and the three control bytes the writer escapes are the tokens   *)
(* LF, CR and TAB.  A C++ type is a record [k, id, args]; a value of it is *)
(* a record [k, n, s, kids].                                               *)
(***************************************************************************)
EXTENDS Integers, Sequences, FiniteSets, TLC

(***************************************************************************)
(* Bounds of the model.                                                    *)
(***************************************************************************)
\* integers passed to serialize at the top level range over -MaxInt..MaxInt
\* (and two of more than one digit)
MaxInt == 3
\* elements of a top-level container
MaxLen == 2
\* elements of a container nested in another value
MaxNest == 1
\* length of the views handed to write_escaped directly
MaxStrLen == 2
\* cases of the enum descriptors the lookups are tried on
MaxCases == 3
\* serialize is not called again on a writer holding more than this
MaxBuffer == 1
\* the numeric conversions of one call that can be made to fail
MaxFault == 2
\* the callers that encode at the same time
MaxThreads == 2

(***************************************************************************)
(* Bytes.                                                                  *)
(***************************************************************************)
BACKSLASH == "\\"
QUOTE == "\""
LF == "LF"
CR == "CR"
TAB == "TAB"

\* the bytes the views of write_escaped are built from: the five escaped
\* ones and one that passes through, which is also the letter of an escape
Alphabet == {BACKSLASH, QUOTE, LF, CR, TAB, "n"}

RECURSIVE SeqsUpTo(_, _)
SeqsUpTo(S, n) ==
    IF n = 0 THEN {<<>>}
    ELSE LET shorter == SeqsUpTo(S, n - 1)
         IN  shorter \cup {Append(q, x) : q \in {p \in shorter : Len(p) = n - 1}, x \in S}

Views == SeqsUpTo(Alphabet, MaxStrLen)

(***************************************************************************)
(* serialization_error, and the state of one call: the json_writer it      *)
(* writes to, the exception in flight (NoError: none), the number of       *)
(* std::to_chars calls made so far, and the call of std::to_chars that     *)
(* reports an error (0: none does).                                        *)
(***************************************************************************)
NoError == [message |-> "", where |-> 0]

serialization_error(msg, line) == [message |-> msg, where |-> line]

json_writer(text) == [buffer |-> text]

Enter(out, fault) == [out |-> out, error |-> NoError, nconv |-> 0, fault |-> fault]

Thrown(cx) == cx.error # NoError

\* json_writer::write(char)
write(cx, c) ==
    IF Thrown(cx) THEN cx
    ELSE [cx EXCEPT !.out.buffer = Append(@, c)]

\* write(std::string_view) with buffer.assign in place of buffer.append
write_view_assign(cx, view) ==
    IF Thrown(cx) THEN cx
    ELSE [cx EXCEPT !.out.buffer = view]

\* json_writer::write(std::string_view)
write_view(cx, view) ==
    IF Thrown(cx) THEN cx
    ELSE [cx EXCEPT !.out.buffer = @ \o view]

\* the switch without its first case: a backslash is copied unchanged
EscapeCharNoBackslash(c) ==
    CASE c = QUOTE -> <<BACKSLASH, QUOTE>>
      [] c = LF -> <<BACKSLASH, "n">>
      [] c = CR -> <<BACKSLASH, "r">>
      [] c = TAB -> <<BACKSLASH, "t">>
      [] OTHER -> <<c>>

\* the switch of write_escaped, for one byte
EscapeChar(c) ==
    CASE c = BACKSLASH -> <<BACKSLASH, BACKSLASH>>
      [] c = QUOTE -> <<BACKSLASH, QUOTE>>
      [] c = LF -> <<BACKSLASH, "n">>
      [] c = CR -> <<BACKSLASH, "r">>
      [] c = TAB -> <<BACKSLASH, "t">>
      [] OTHER -> <<c>>

RECURSIVE EscapeLoop(_, _, _)
EscapeLoop(buffer, view, i) ==
    IF i > Len(view) THEN buffer
    ELSE EscapeLoop(buffer \o EscapeChar(view[i]), view, i + 1)

\* json_writer::write_escaped
write_escaped(cx, view) ==
    IF Thrown(cx) THEN cx
    ELSE LET opened == write(cx, QUOTE)
             body == [opened EXCEPT !.out.buffer = EscapeLoop(@, view, 1)]
         IN  write(body, QUOTE)

\* json_writer::str
str(out) == out.buffer

(***************************************************************************)
(* std::to_chars into a local buffer of cap bytes.                         *)
(***************************************************************************)
IntBufSize == 64
FloatBufSize == 128

Digit(d) ==
    CASE d = 0 -> "0" [] d = 1 -> "1" [] d = 2 -> "2" [] d = 3 -> "3"
      [] d = 4 -> "4" [] d = 5 -> "5" [] d = 6 -> "6" [] d = 7 -> "7"
      [] d = 8 -> "8" [] d = 9 -> "9"

RECURSIVE DecDigits(_)
DecDigits(n) ==
    IF n < 10 THEN <<Digit(n)>>
    ELSE Append(DecDigits(n \div 10), Digit(n % 10))

\* the decimal text of an integer
IntText(n) == IF n < 0 THEN <<"-">> \o DecDigits(-n) ELSE DecDigits(n)

\* the shortest text of the floating-point value h/2
FloatText(h) ==
    LET a == IF h < 0 THEN -h ELSE h
        whole == DecDigits(a \div 2)
        frac == IF a % 2 = 1 THEN <<".", "5">> ELSE <<>>
    IN  (IF h < 0 THEN <<"-">> ELSE <<>>) \o whole \o frac

to_chars(cap, text, injected) ==
    IF injected \/ Len(text) > cap
    THEN [ec |-> "value_too_large", text |-> <<>>]
    ELSE [ec |-> "ok", text |-> text]

\* serialize_integral without the test of ec: a failed conversion writes
\* nothing and the call returns
serialize_integral_unchecked(cx, value) ==
    IF Thrown(cx) THEN cx
    ELSE LET k == cx.nconv + 1
             r == to_chars(IntBufSize, IntText(value), k = cx.fault)
             counted == [cx EXCEPT !.nconv = k]
         IN  write_view(counted, r.text)

\* detail::serialize_integral
serialize_integral(cx, value) ==
    IF Thrown(cx) THEN cx
    ELSE LET k == cx.nconv + 1
             r == to_chars(IntBufSize, IntText(value), k = cx.fault)
             counted == [cx EXCEPT !.nconv = k]
         IN  IF r.ec # "ok"
             THEN [counted EXCEPT !.error =
                       serialization_error("integral conversion failed", 408)]
             ELSE write_view(counted, r.text)

\* detail::serialize_floating
serialize_floating(cx, value) ==
    IF Thrown(cx) THEN cx
    ELSE LET k == cx.nconv + 1
             r == to_chars(FloatBufSize, FloatText(value), k = cx.fault)
             counted == [cx EXCEPT !.nconv = k]
         IN  IF r.ec # "ok"
             THEN [counted EXCEPT !.error =
                       serialization_error("floating conversion failed", 418)]
             ELSE write_view(counted, r.text)

\* detail::serialize_boolean
serialize_boolean(cx, value) ==
    write_view(cx, IF value THEN <<"t", "r", "u", "e">> ELSE <<"f", "a", "l", "s", "e">>)

\* detail::serialize_string
serialize_string(cx, view) == write_escaped(cx, view)

\* write_delimiter without the test of first: a comma before every member
write_delimiter_always(cx, first) ==
    IF Thrown(cx) THEN [cx |-> cx, first |-> first]
    ELSE [cx |-> write(cx, ","), first |-> FALSE]

\* detail::write_delimiter: the writer and the caller's flag after the call
write_delimiter(cx, first) ==
    IF Thrown(cx) THEN [cx |-> cx, first |-> first]
    ELSE IF first THEN [cx |-> cx, first |-> FALSE]
    ELSE [cx |-> write(cx, ","), first |-> first]

(***************************************************************************)
(* C++ types.  k is the type constructor, id the enumeration or the class, *)
(* args the template arguments.                                            *)
(***************************************************************************)
Ty(k, id, args) == [k |-> k, id |-> id, args |-> args]

BoolT == Ty("bool", "", <<>>)
IntT == Ty("int", "", <<>>)
CharT == Ty("char", "", <<>>)
DoubleT == Ty("double", "", <<>>)
StringT == Ty("string", "", <<>>)
EnumT(e) == Ty("enum", e, <<>>)
PairT(a, b) == Ty("pair", "", <<a, b>>)
VectorT(a) == Ty("vector", "", <<a>>)
MapT(a, b) == Ty("map", "", <<a, b>>)
OptionalT(a) == Ty("optional", "", <<a>>)
ExpectedT(a, b) == Ty("expected", "", <<a, b>>)
VariantT(alts) == Ty("variant", "", alts)
ObjT(c) == Ty("class", c, <<>>)
\* a class type with no reflect(tag<T>) overload
OpaqueT == Ty("class", "", <<>>)

(***************************************************************************)
(* The descriptors of the program: the enumeration and the records of      *)
(* tests/serializer_tests.cpp, and further ones with an enumeration that   *)
(* has no reflect_enum, duplicate cases, several bases, a base of a base,  *)
(* a repeated field name and records with no fields.                       *)
(***************************************************************************)
Tone == "Tone"
Plain == "Plain"
Dup == "Dup"

case_(value, name) == [value |-> value, name |-> name]

\* reflect_enum(tag<Enum>)
reflect_enum(e) ==
    CASE e = Tone -> << case_(0, <<"w", "a", "r", "m">>),
                        case_(1, <<"c", "o", "o", "l">>),
                        case_(2, <<"n", "e", "u", "t", "r", "a", "l">>) >>
      [] e = Dup -> << case_(0, <<"a">>), case_(0, <<"b">>), case_(1, <<"a">>) >>

has_custom_enum_reflect(e) == e \in {Tone, Dup}

\* meta::empty_enum
empty_enum == <<>>

\* meta::enum_description: the cases of the descriptor
enum_description(e) ==
    IF has_custom_enum_reflect(e) THEN reflect_enum(e) ELSE empty_enum

Named == "Named"
Address == "Address"
Employee == "Employee"
Left == "Left"
Middle == "Middle"
Right == "Right"
Bottom == "Bottom"
Empty == "Empty"
Shell == "Shell"
Holder == "Holder"

field(name, type) == [name |-> name, type |-> type]

describe(bases, fields) == [bases |-> bases, fields |-> fields]

\* reflect(tag<T>)
reflect(c) ==
    CASE c = Named -> describe(<<>>, << field(<<"n", "a", "m", "e">>, StringT) >>)
      [] c = Address ->
            describe(<<>>, << field(<<"s", "t", "r", "e", "e", "t">>, StringT),
                              field(<<"n", "u", "m", "b", "e", "r">>, IntT) >>)
      [] c = Employee ->
            describe(<<Named>>,
                     << field(<<"i", "d">>, IntT),
                        field(<<"a", "d", "d", "r", "e", "s", "s">>, ObjT(Address)),
                        field(<<"f", "a", "v", "o", "r", "i", "t", "e", "_",
                                "n", "u", "m", "b", "e", "r", "s">>, VectorT(IntT)) >>)
      [] c = Left -> describe(<<>>, << field(<<"x">>, IntT) >>)
      [] c = Middle -> describe(<<Left>>, << field(<<"y">>, BoolT) >>)
      [] c = Right -> describe(<<>>, << field(<<"x">>, IntT) >>)
      [] c = Bottom ->
            describe(<<Middle, Right>>,
                     << field(<<"z">>, IntT), field(<<"y">>, OptionalT(IntT)) >>)
      [] c = Empty -> describe(<<>>, <<>>)
      [] c = Shell ->
            describe(<<Empty>>,
                     << field(<<"e">>, ObjT(Empty)), field(<<"v">>, VectorT(IntT)) >>)
      [] c = Holder -> describe(<<>>, << field(<<"h">>, OpaqueT) >>)

has_custom_reflect(c) ==
    c \in {Named, Address, Employee, Left, Middle, Right, Bottom, Empty, Shell, Holder}

\* meta::has_type_description_v (no standard reflection in this build)
has_type_description_v(t) == t.k = "class" /\ has_custom_reflect(t.id)

\* meta::type_description
type_description(c) == reflect(c)

(***************************************************************************)
(* enum_descriptor::name_of and value_of.  An optional is a sequence of at *)
(* most one element.                                                       *)
(***************************************************************************)
\* name_of without the test of !result: the last matching case wins
RECURSIVE NameScanLast(_, _, _, _)
NameScanLast(cases, value, i, result) ==
    IF i > Len(cases) THEN result
    ELSE NameScanLast(cases, value, i + 1,
                      IF cases[i].value = value THEN <<cases[i].name>> ELSE result)

RECURSIVE NameScan(_, _, _, _)
NameScan(cases, value, i, result) ==
    IF i > Len(cases) THEN result
    ELSE NameScan(cases, value, i + 1,
                  IF result = <<>> /\ cases[i].value = value
                  THEN <<cases[i].name>> ELSE result)

name_of(cases, value) == NameScan(cases, value, 1, <<>>)

RECURSIVE ValueScan(_, _, _, _)
ValueScan(cases, name, i, result) ==
    IF i > Len(cases) THEN result
    ELSE ValueScan(cases, name, i + 1,
                   IF result = <<>> /\ cases[i].name = name
                   THEN <<cases[i].value>> ELSE result)

value_of(cases, name) == ValueScan(cases, name, 1, <<>>)

(***************************************************************************)
(* The concepts of namespace detail.                                       *)
(***************************************************************************)
\* std::ranges::range
is_range(t) == t.k \in {"string", "vector", "map"}

\* std::ranges::range_value_t
range_value_t(t) ==
    CASE t.k = "map" -> PairT(t.args[1], t.args[2])
      [] t.k = "vector" -> t.args[1]
      [] t.k = "string" -> CharT

string_like(t) == t.k = "string"

map_like(t) == is_range(t) /\ range_value_t(t).k = "pair"

range_like(t) == is_range(t) /\ ~string_like(t)

optional_like(t) == t.k = "optional"

expected_like(t) == t.k = "expected"

variant_like(t) == t.k = "variant"

reflectable(t) == has_type_description_v(t)

\* the chain with range_like tested before map_like
DispatchRangeFirst(t) ==
    IF t.k = "bool" THEN "boolean"
    ELSE IF t.k \in {"int", "char"} THEN "integer"
    ELSE IF t.k = "double" THEN "floating"
    ELSE IF string_like(t) THEN "string"
    ELSE IF t.k = "enum" THEN "enumeration"
    ELSE IF range_like(t) THEN "sequence"
    ELSE IF map_like(t) THEN "map"
    ELSE IF optional_like(t) THEN "optional"
    ELSE IF expected_like(t) THEN "result"
    ELSE IF variant_like(t) THEN "variant"
    ELSE IF reflectable(t) THEN "object"
    ELSE "not_serializable"

\* the if constexpr chain of serialize<T>: the branch that is instantiated
Dispatch(t) ==
    IF t.k = "bool" THEN "boolean"
    ELSE IF t.k \in {"int", "char"} THEN "integer"
    ELSE IF t.k = "double" THEN "floating"
    ELSE IF string_like(t) THEN "string"
    ELSE IF t.k = "enum" THEN "enumeration"
    ELSE IF map_like(t) THEN "map"
    ELSE IF range_like(t) THEN "sequence"
    ELSE IF optional_like(t) THEN "optional"
    ELSE IF expected_like(t) THEN "result"
    ELSE IF variant_like(t) THEN "variant"
    ELSE IF reflectable(t) THEN "object"
    ELSE "not_serializable"

\* the types serialize<T> is instantiated for by the body of serialize<T>
RECURSIVE Instantiates(_)
RECURSIVE FlatFieldTypes(_)
FlatFieldTypes(c) ==
    LET d == type_description(c)
    IN  UNION {FlatFieldTypes(d.bases[i]) : i \in 1..Len(d.bases)}
          \cup {d.fields[i].type : i \in 1..Len(d.fields)}

Instantiates(t) ==
    LET b == Dispatch(t)
    IN  CASE b = "map" -> {range_value_t(t).args[2]}
          [] b = "sequence" -> {range_value_t(t)}
          [] b = "optional" -> {t.args[1]}
          [] b = "result" -> {t.args[1], t.args[2]}
          [] b = "variant" -> {t.args[i] : i \in 1..Len(t.args)}
          [] b = "object" -> FlatFieldTypes(t.id)
          [] OTHER -> {}

\* the static_asserts: serialize<T> compiles
RECURSIVE WellFormed(_)
WellFormed(t) ==
    /\ Dispatch(t) # "not_serializable"
    /\ Dispatch(t) = "map" => string_like(range_value_t(t).args[1])
    /\ \A u \in Instantiates(t) : WellFormed(u)

(***************************************************************************)
(* Values.  n is the number of a bool (0, 1), an integer, a floating-point *)
(* value (in halves) or an enumeration, has_value() of an expected and     *)
(* index() of a variant; s is the text of a string; kids are the elements  *)
(* of a range in iteration order, the two members of a pair, the held      *)
(* value of an optional, the payload of an expected or a variant, and the  *)
(* base subobjects followed by the own members of a class object.          *)
(***************************************************************************)
Val(k, n, s, kids) == [k |-> k, n |-> n, s |-> s, kids |-> kids]

RECURSIVE Product(_)
Product(sets) ==
    IF sets = <<>> THEN {<<>>}
    ELSE {<<x>> \o rest : x \in Head(sets), rest \in Product(Tail(sets))}

\* the texts of the strings at nesting depth d
SampleStrings(d) ==
    IF d = 0 THEN {<<>>, <<"a">>, <<",", QUOTE, "]">>}
    ELSE IF d <= 2 THEN {<<"a">>, <<",", QUOTE, "]">>}
    ELSE {<<"a">>}

\* the integers at nesting depth d
SampleInts(d) ==
    IF d = 0 THEN (-MaxInt..MaxInt) \cup {10 * MaxInt + 2, -(100 * MaxInt + 20)}
    ELSE IF d = 1 THEN {0, 10 * MaxInt + 2}
    ELSE {MaxInt}

\* the floating-point values, in halves
SampleHalves(d) == IF d = 0 THEN {-1, 0, 7, 2 * MaxInt} ELSE {7}

EnumValues == -1..3

Distinct(q) == \A i, j \in 1..Len(q) : i # j => q[i] # q[j]

\* the values of type t at nesting depth d
RECURSIVE ValuesOf(_, _)
ValuesOf(t, d) ==
    LET len == IF d = 0 THEN MaxLen ELSE MaxNest
        kid(i) == ValuesOf(t.args[i], d + 1)
    IN  CASE t.k = "bool" -> {Val("bool", b, <<>>, <<>>) : b \in {0, 1}}
          [] t.k \in {"int", "char"} ->
                {Val(t.k, n, <<>>, <<>>) : n \in SampleInts(d)}
          [] t.k = "double" ->
                {Val("double", h, <<>>, <<>>) : h \in SampleHalves(d)}
          [] t.k = "string" ->
                {Val("string", 0, s, <<>>) : s \in SampleStrings(d)}
          [] t.k = "enum" -> {Val("enum", n, <<>>, <<>>) : n \in EnumValues}
          [] t.k = "pair" ->
                {Val("pair", 0, <<>>, <<a, b>>) : a \in kid(1), b \in kid(2)}
          [] t.k = "vector" ->
                {Val("vector", 0, <<>>, q) : q \in SeqsUpTo(kid(1), len)}
          [] t.k = "map" ->
                {Val("map", 0, <<>>, q) :
                    q \in {p \in SeqsUpTo(ValuesOf(range_value_t(t), d), len) :
                              Distinct([i \in 1..Len(p) |-> p[i].kids[1]])}}
          [] t.k = "optional" ->
                {Val("optional", 0, <<>>, <<>>)}
                  \cup {Val("optional", 0, <<>>, <<x>>) : x \in kid(1)}
          [] t.k = "expected" ->
                {Val("expected", 1, <<>>, <<x>>) : x \in kid(1)}
                  \cup {Val("expected", 0, <<>>, <<x>>) : x \in kid(2)}
          [] t.k = "variant" ->
                UNION {{Val("variant", i - 1, <<>>, <<x>>) : x \in kid(i)} :
                          i \in 1..Len(t.args)}
          [] t.k = "class" ->
                LET desc == type_description(t.id)
                    parts ==
                        [i \in 1..(Len(desc.bases) + Len(desc.fields)) |->
                            IF i <= Len(desc.bases)
                            THEN ValuesOf(ObjT(desc.bases[i]), d)
                            ELSE ValuesOf(desc.fields[i - Len(desc.bases)].type, d + 1)]
                IN  {Val("class", 0, <<>>, q) : q \in Product(parts)}

(***************************************************************************)
(* The encoder.  Every operator takes the state of the call and gives the  *)
(* state after it; once an exception is in flight nothing more is written. *)
(***************************************************************************)
RECURSIVE serialize(_, _, _)
RECURSIVE SequenceLoop(_, _, _, _, _)
RECURSIVE MapLoop(_, _, _, _, _)
RECURSIVE for_each_field(_, _, _)
RECURSIVE BasesLoop(_, _, _, _)
RECURSIVE FieldsLoop(_, _, _, _, _)

\* the for loop of detail::serialize_sequence
SequenceLoop(cx, et, elems, i, first) ==
    IF i > Len(elems) \/ Thrown(cx) THEN cx
    ELSE LET d == write_delimiter(cx, first)
         IN  SequenceLoop(serialize(d.cx, et, elems[i]), et, elems, i + 1, d.first)

\* detail::serialize_sequence
serialize_sequence(cx, t, range) ==
    LET opened == write(cx, "[")
        looped == SequenceLoop(opened, range_value_t(t), range.kids, 1, TRUE)
    IN  write(looped, "]")

\* the for loop of detail::serialize_map
MapLoop(cx, pt, pairs, i, first) ==
    IF i > Len(pairs) \/ Thrown(cx) THEN cx
    ELSE LET d == write_delimiter(cx, first)
             key == serialize_string(d.cx, pairs[i].kids[1].s)
             colon == write(key, ":")
         IN  MapLoop(serialize(colon, pt.args[2], pairs[i].kids[2]),
                     pt, pairs, i + 1, d.first)

\* detail::serialize_map
serialize_map(cx, t, range) ==
    LET opened == write(cx, "{")
        looped == MapLoop(opened, range_value_t(t), range.kids, 1, TRUE)
    IN  write(looped, "}")

\* the lambda serialize_object hands to for_each_field
FieldFn(st, name, ft, fv) ==
    LET d == write_delimiter(st.cx, st.first)
        key == write_escaped(d.cx, name)
        colon == write(key, ":")
    IN  [cx |-> serialize(colon, ft, fv), first |-> d.first]

\* the fold over descriptor.bases
BasesLoop(st, bases, object, i) ==
    IF i > Len(bases) THEN st
    ELSE BasesLoop(for_each_field(st, bases[i], object.kids[i]), bases, object, i + 1)

\* the fold over descriptor.fields
FieldsLoop(st, fields, object, offset, j) ==
    IF j > Len(fields) THEN st
    ELSE FieldsLoop(FieldFn(st, fields[j].name, fields[j].type, object.kids[offset + j]),
                    fields, object, offset, j + 1)

\* for_each_field_impl with the two std::apply calls exchanged: own fields first
for_each_field_own_first(st, c, object) ==
    LET descriptor == type_description(c)
        own == FieldsLoop(st, descriptor.fields, object, Len(descriptor.bases), 1)
    IN  BasesLoop(own, descriptor.bases, object, 1)

\* detail::for_each_field_impl
for_each_field_impl(st, c, object) ==
    LET descriptor == type_description(c)
        based == BasesLoop(st, descriptor.bases, object, 1)
    IN  FieldsLoop(based, descriptor.fields, object, Len(descriptor.bases), 1)

\* detail::for_each_field
for_each_field(st, c, object) == for_each_field_impl(st, c, object)

\* detail::serialize_object
serialize_object(cx, t, value) ==
    LET begun == write(cx, "{")
        done == for_each_field([cx |-> begun, first |-> TRUE], t.id, value)
    IN  write(done.cx, "}")

\* serialize_enum writing the name with write instead of write_escaped
serialize_enum_unquoted(cx, t, value) ==
    LET descriptor == enum_description(t.id)
        name == name_of(descriptor, value.n)
    IN  IF name # <<>> THEN write_view(cx, name[1])
        ELSE serialize_integral(cx, value.n)

\* detail::serialize_enum
serialize_enum(cx, t, value) ==
    LET descriptor == enum_description(t.id)
        name == name_of(descriptor, value.n)
    IN  IF name # <<>> THEN write_escaped(cx, name[1])
        ELSE serialize_integral(cx, value.n)

\* the optional_like branch wrapping the held value in an array
serialize_optional_wrapped(cx, t, value) ==
    IF Len(value.kids) = 1
    THEN write(serialize(write(cx, "["), t.args[1], value.kids[1]), "]")
    ELSE write_view(cx, <<"n", "u", "l", "l">>)

\* the optional_like branch of serialize
serialize_optional(cx, t, value) ==
    IF Len(value.kids) = 1 THEN serialize(cx, t.args[1], value.kids[1])
    ELSE write_view(cx, <<"n", "u", "l", "l">>)

\* the expected_like branch with the state of the first branch pasted into
\* the second
serialize_expected_pasted(cx, t, value) ==
    LET opened == write(cx, "{")
        idx_field == write(write_escaped(opened, <<"s", "t", "a", "t", "e">>), ":")
        state == serialize_string(idx_field, <<"v", "a", "l", "u", "e">>)
        comma == write(state, ",")
    IN  IF value.n = 1
        THEN LET key == write(write_escaped(comma, <<"v", "a", "l", "u", "e">>), ":")
             IN  write(serialize(key, t.args[1], value.kids[1]), "}")
        ELSE LET key == write(write_escaped(comma, <<"e", "r", "r", "o", "r">>), ":")
             IN  write(serialize(key, t.args[2], value.kids[1]), "}")

\* the expected_like branch of serialize
serialize_expected(cx, t, value) ==
    LET opened == write(cx, "{")
        idx_field == write(write_escaped(opened, <<"s", "t", "a", "t", "e">>), ":")
    IN  IF value.n = 1
        THEN LET state == serialize_string(idx_field, <<"v", "a", "l", "u", "e">>)
                 comma == write(state, ",")
                 key == write(write_escaped(comma, <<"v", "a", "l", "u", "e">>), ":")
             IN  write(serialize(key, t.args[1], value.kids[1]), "}")
        ELSE LET state == serialize_string(idx_field, <<"e", "r", "r", "o", "r">>)
                 comma == write(state, ",")
                 key == write(write_escaped(comma, <<"e", "r", "r", "o", "r">>), ":")
             IN  write(serialize(key, t.args[2], value.kids[1]), "}")

\* the variant_like branch writing a one-based index
serialize_variant_one_based(cx, t, value) ==
    LET index == value.n
        begun == write(cx, "{")
        d1 == write_delimiter(begun, TRUE)
        key1 == write(write_escaped(d1.cx, <<"i", "n", "d", "e", "x">>), ":")
        idx == serialize_integral(key1, index + 1)
        d2 == write_delimiter(idx, d1.first)
        key2 == write(write_escaped(d2.cx, <<"v", "a", "l", "u", "e">>), ":")
        alt == serialize(key2, t.args[index + 1], value.kids[1])
    IN  write(alt, "}")

\* the variant_like branch of serialize
serialize_variant(cx, t, value) ==
    LET index == value.n
        begun == write(cx, "{")
        d1 == write_delimiter(begun, TRUE)
        key1 == write(write_escaped(d1.cx, <<"i", "n", "d", "e", "x">>), ":")
        idx == serialize_integral(key1, index)
        d2 == write_delimiter(idx, d1.first)
        key2 == write(write_escaped(d2.cx, <<"v", "a", "l", "u", "e">>), ":")
        alt == serialize(key2, t.args[index + 1], value.kids[1])
    IN  write(alt, "}")

\* the branch of serialize that Dispatch selected
Branch(branch, cx, t, value) ==
    CASE branch = "boolean" -> serialize_boolean(cx, value.n = 1)
      [] branch = "integer" -> serialize_integral(cx, value.n)
      [] branch = "floating" -> serialize_floating(cx, value.n)
      [] branch = "string" -> serialize_string(cx, value.s)
      [] branch = "enumeration" -> serialize_enum(cx, t, value)
      [] branch = "map" -> serialize_map(cx, t, value)
      [] branch = "sequence" -> serialize_sequence(cx, t, value)
      [] branch = "optional" -> serialize_optional(cx, t, value)
      [] branch = "result" -> serialize_expected(cx, t, value)
      [] branch = "variant" -> serialize_variant(cx, t, value)
      [] branch = "object" -> serialize_object(cx, t, value)
      [] OTHER -> cx

\* seri::serialize
serialize(cx, t, value) ==
    IF Thrown(cx) THEN cx ELSE Branch(Dispatch(t), cx, t, value)

(***************************************************************************)
(* The types the program instantiates serialize with.                      *)
(***************************************************************************)
Types ==
    { BoolT, IntT, DoubleT, StringT,
      EnumT(Tone), EnumT(Plain), EnumT(Dup),
      VectorT(IntT), VectorT(VectorT(IntT)), VectorT(PairT(StringT, IntT)),
      MapT(StringT, IntT), MapT(StringT, VectorT(IntT)),
      OptionalT(IntT), OptionalT(OptionalT(IntT)), OptionalT(VectorT(IntT)),
      ExpectedT(IntT, StringT), ExpectedT(VectorT(IntT), EnumT(Tone)),
      VariantT(<<IntT, StringT>>),
      VariantT(<<OptionalT(IntT), VectorT(IntT), ExpectedT(IntT, StringT)>>),
      ObjT(Named), ObjT(Address), ObjT(Employee), ObjT(Bottom), ObjT(Empty),
      ObjT(Shell),
      OpaqueT, PairT(StringT, IntT), MapT(IntT, IntT), VectorT(PairT(IntT, IntT)),
      VectorT(OpaqueT), OptionalT(OpaqueT), ExpectedT(IntT, OpaqueT),
      VariantT(<<IntT, OpaqueT>>), ObjT(Holder) }

NoType == Ty("none", "", <<>>)
NoValue == Val("none", 0, <<>>, <<>>)

(***************************************************************************)
(* The program: one json_writer and the calls made on it.                  *)
(*   writer      the json_writer                                           *)
(*   status      idle (constructed), returned (the last call returned),    *)
(*               thrown (it ended by a serialization_error, which nothing  *)
(*               catches), ill_formed (the program does not compile)       *)
(*   call        the last call: its name, its arguments, the buffer it     *)
(*               found and the std::to_chars call that failed in it        *)
(*   error       the serialization_error thrown                            *)
(*   result      what the last call returned: the text of the writer       *)
(*               to_json returned, or of the string str() returned         *)
(*   descriptor  the cases of an enum_descriptor                           *)
(*   lookup      the last lookup made in it                                *)
(*   threads     for every concurrent caller of to_json: where its call    *)
(*               stands, the value it passed, the json_writer of the call, *)
(*               the bytes the call has still to write and what it         *)
(*               returned                                                  *)
(***************************************************************************)
VARIABLES writer, status, call, error, result, descriptor, lookup, threads

vars == <<writer, status, call, error, result, descriptor, lookup, threads>>

Call(op, t, v, view, before, fault) ==
    [op |-> op, type |-> t, value |-> v, view |-> view, before |-> before,
     fault |-> fault]

NoLookup == [op |-> "none", value |-> 0, name |-> <<>>, found |-> <<>>]

Threads == 1..MaxThreads

\* a caller that has not called
NoThread ==
    [status |-> "idle", type |-> NoType, value |-> NoValue,
     out |-> json_writer(<<>>), todo |-> <<>>, result |-> <<>>]

Init ==
    /\ writer = json_writer(<<>>)
    /\ status = "idle"
    /\ call = Call("none", NoType, NoValue, <<>>, <<>>, 0)
    /\ error = NoError
    /\ result = <<>>
    /\ descriptor = <<>>
    /\ lookup = NoLookup
    /\ threads = [i \in Threads |-> NoThread]

\* the program goes on: nothing was thrown, and the writer is short
Running == status \in {"idle", "returned"} /\ Len(writer.buffer) <= MaxBuffer

\* the end of a call of serialize: it returns, or the exception leaves it
Leave(cx) ==
    /\ writer' = cx.out
    /\ status' = IF Thrown(cx) THEN "thrown" ELSE "returned"
    /\ error' = cx.error

\* seri::serialize(writer, value)
Serialize(t, v, fault) ==
    /\ Running
    /\ WellFormed(t)
    /\ Leave(serialize(Enter(writer, fault), t, v))
    /\ call' = Call("serialize", t, v, <<>>, writer.buffer, fault)
    /\ result' = <<>>
    /\ UNCHANGED <<descriptor, lookup, threads>>

\* the end of to_json: it returns its writer, or the exception destroys it
LeaveToJson(cx) ==
    /\ writer' = IF Thrown(cx) THEN writer ELSE cx.out
    /\ status' = IF Thrown(cx) THEN "thrown" ELSE "returned"
    /\ error' = cx.error
    /\ result' = IF Thrown(cx) THEN <<>> ELSE <<cx.out.buffer>>

\* seri::to_json(value); the program goes on with the writer it returns
ToJson(t, v, fault) ==
    /\ status = "idle"
    /\ WellFormed(t)
    /\ LeaveToJson(serialize(Enter(json_writer(<<>>), fault), t, v))
    /\ call' = Call("to_json", t, v, <<>>, <<>>, fault)
    /\ UNCHANGED <<descriptor, lookup, threads>>

\* serialize<T> or to_json with a type that fails a static_assert
Reject(t) ==
    /\ status = "idle"
    /\ ~WellFormed(t)
    /\ status' = "ill_formed"
    /\ call' = Call("serialize", t, NoValue, <<>>, writer.buffer, 0)
    /\ UNCHANGED <<writer, error, result, descriptor, lookup, threads>>

\* json_writer::write_escaped(view)
WriteEscaped(view) ==
    /\ Running
    /\ writer' = write_escaped(Enter(writer, 0), view).out
    /\ status' = "returned"
    /\ call' = Call("write_escaped", NoType, NoValue, view, writer.buffer, 0)
    /\ result' = <<>>
    /\ UNCHANGED <<error, descriptor, lookup, threads>>

\* json_writer::str()
Str ==
    /\ Running
    /\ call.op # "str"
    /\ result' = <<str(writer)>>
    /\ status' = "returned"
    /\ call' = Call("str", NoType, NoValue, <<>>, writer.buffer, 0)
    /\ UNCHANGED <<writer, error, descriptor, lookup, threads>>

\* writer.buffer.clear()
Clear ==
    /\ Running
    /\ writer.buffer # <<>>
    /\ writer' = json_writer(<<>>)
    /\ status' = "returned"
    /\ call' = Call("clear", NoType, NoValue, <<>>, writer.buffer, 0)
    /\ result' = <<>>
    /\ UNCHANGED <<error, descriptor, lookup, threads>>

\* the values the program holds: only a type that compiles has any
Values(t) == IF WellFormed(t) THEN ValuesOf(t, 0) ELSE {}

\* the arguments of the calls: a type and a value of it
Inputs == UNION {{<<t, v>> : v \in Values(t)} : t \in Types}

Step(Faults) ==
    \/ \E in \in Inputs : \E f \in Faults : Serialize(in[1], in[2], f)
    \/ \E in \in Inputs : \E f \in Faults : ToJson(in[1], in[2], f)
    \/ \E t \in Types : Reject(t)
    \/ \E view \in Views : WriteEscaped(view)
    \/ Str
    \/ Clear

\* std::to_chars fails only when the text does not fit its buffer
Next == Step({0})

Spec == Init /\ [][Next]_vars

\* any one std::to_chars call of a serialize call may report an error
NextFault == Step(0..MaxFault)

SpecFault == Init /\ [][NextFault]_vars

(***************************************************************************)
(* The lookups of an enum_descriptor, tried on every descriptor of at most *)
(* MaxCases cases over two discriminants and two names.                    *)
(***************************************************************************)
CaseValues == {0, 1}
CaseNames == {<<"a">>, <<"b">>}

Descriptors == SeqsUpTo({case_(v, n) : v \in CaseValues, n \in CaseNames}, MaxCases)

InitEnum ==
    /\ writer = json_writer(<<>>)
    /\ status = "idle"
    /\ call = Call("none", NoType, NoValue, <<>>, <<>>, 0)
    /\ error = NoError
    /\ result = <<>>
    /\ descriptor \in Descriptors
    /\ lookup = NoLookup
    /\ threads = [i \in Threads |-> NoThread]

\* descriptor.name_of(value)
NameOf(value) ==
    /\ lookup' = [op |-> "name_of", value |-> value, name |-> <<>>,
                  found |-> name_of(descriptor, value)]
    /\ UNCHANGED <<writer, status, call, error, result, descriptor, threads>>

\* descriptor.value_of(name)
ValueOf(name) ==
    /\ lookup' = [op |-> "value_of", value |-> 0, name |-> name,
                  found |-> value_of(descriptor, name)]
    /\ UNCHANGED <<writer, status, call, error, result, descriptor, threads>>

NextEnum ==
    \/ \E value \in CaseValues \cup {2} : NameOf(value)
    \/ \E name \in CaseNames \cup {<<"c">>} : ValueOf(name)

SpecEnum == InitEnum /\ [][NextEnum]_vars

(***************************************************************************)
(* Concurrent callers.  Every caller runs to_json on a value of its own;   *)
(* a call is the json_writer it constructs, the bytes serialize appends to *)
(* it, one push_back at a time, and the return of the writer.  The steps   *)
(* of the callers interleave freely.  The descriptors are consteval        *)
(* results, the same constants for every caller.                           *)
(***************************************************************************)
\* the values the callers encode
ParInputs ==
    { <<EnumT(Tone), Val("enum", 0, <<>>, <<>>)>>,
      <<StringT, Val("string", 0, <<",", QUOTE, "]">>, <<>>)>>,
      <<VectorT(IntT),
        Val("vector", 0, <<>>, <<Val("int", 1, <<>>, <<>>), Val("int", 2, <<>>, <<>>)>>)>>,
      <<ObjT(Named),
        Val("class", 0, <<>>, <<Val("string", 0, <<"a">>, <<>>)>>)>> }

\* one writer, a static of to_json, for every call
WriterShared(i) == 1

\* the json_writer of the call of caller i: the local of its to_json
WriterOf(i) == i

\* caller i calls to_json(value): json_writer writer;
Begin(i, t, v) ==
    /\ threads[i].status \in {"idle", "returned"}
    /\ threads' = [threads EXCEPT ![i].status = "running",
                                  ![i].type = t,
                                  ![i].value = v,
                                  ![i].todo =
                                      serialize(Enter(json_writer(<<>>), 0), t, v).out.buffer,
                                  ![i].result = <<>>,
                                  ![WriterOf(i)].out = json_writer(<<>>)]
    /\ UNCHANGED <<writer, status, call, error, result, descriptor, lookup>>

\* the call of caller i appends its next byte
Write(i) ==
    /\ threads[i].status = "running"
    /\ threads[i].todo # <<>>
    /\ threads' = [threads EXCEPT ![i].todo = Tail(@),
                                  ![WriterOf(i)].out =
                                      write(Enter(@, 0), Head(threads[i].todo)).out]
    /\ UNCHANGED <<writer, status, call, error, result, descriptor, lookup>>

\* the call of caller i ends: return writer;
Return(i) ==
    /\ threads[i].status = "running"
    /\ threads[i].todo = <<>>
    /\ threads' = [threads EXCEPT ![i].status = "returned",
                                  ![i].result = <<threads[WriterOf(i)].out.buffer>>]
    /\ UNCHANGED <<writer, status, call, error, result, descriptor, lookup>>

NextPar ==
    \E i \in Threads :
        \/ \E input \in ParInputs : Begin(i, input[1], input[2])
        \/ Write(i)
        \/ Return(i)

SpecPar == Init /\ [][NextPar]_vars

(***************************************************************************)
(* C4.  enum_descriptor::name_of and value_of.                             *)
(***************************************************************************)
NamesDistinct(cases) == Distinct([i \in 1..Len(cases) |-> cases[i].name])
ValuesDistinct(cases) == Distinct([i \in 1..Len(cases) |-> cases[i].value])

\* the index of the first TRUE of a sequence of booleans, 0 when it has none
FirstTrue(flags) ==
    IF \E i \in 1..Len(flags) : flags[i]
    THEN CHOOSE i \in 1..Len(flags) : flags[i] /\ \A j \in 1..(i - 1) : ~flags[j]
    ELSE 0

\* the index of the first case of the given discriminant, or of the given name
FirstOfValue(cases, value) == FirstTrue([i \in 1..Len(cases) |-> cases[i].value = value])
FirstOfName(cases, name) == FirstTrue([i \in 1..Len(cases) |-> cases[i].name = name])

\* C4 as stated: on every descriptor, duplicates included, whenever name_of(v)
\* returns n, value_of(n) returns v, and whenever value_of(n) returns v,
\* name_of(v) returns n.
C4_InverseLookups ==
    /\ (lookup.op = "name_of" /\ lookup.found # <<>>)
          => value_of(descriptor, lookup.found[1]) = <<lookup.value>>
    /\ (lookup.op = "value_of" /\ lookup.found # <<>>)
          => name_of(descriptor, lookup.found[1]) = <<lookup.name>>

\* C4 amended: each lookup returns the member of the first case in declaration
\* order that matches and nothing when no case matches; name_of(v) = n implies
\* value_of(n) = v on a descriptor with no two cases of one name, and
\* value_of(n) = v implies name_of(v) = n on one with no two cases of one
\* discriminant.
C4_FirstMatchLookups ==
    /\ lookup.op = "name_of" =>
          LET i == FirstOfValue(descriptor, lookup.value)
          IN  /\ lookup.found = IF i = 0 THEN <<>> ELSE <<descriptor[i].name>>
              /\ (lookup.found # <<>> /\ NamesDistinct(descriptor))
                    => value_of(descriptor, lookup.found[1]) = <<lookup.value>>
    /\ lookup.op = "value_of" =>
          LET i == FirstOfName(descriptor, lookup.name)
          IN  /\ lookup.found = IF i = 0 THEN <<>> ELSE <<descriptor[i].value>>
              /\ (lookup.found # <<>> /\ ValuesDistinct(descriptor))
                    => name_of(descriptor, lookup.found[1]) = <<lookup.name>>

\* a lookup by discriminant found the first of two cases of one discriminant,
\* and the descriptor has two cases of one name as well
C4_Witness ==
    /\ lookup.op = "name_of"
    /\ Len(descriptor) = 3
    /\ descriptor[1].value = descriptor[2].value
    /\ descriptor[1].name # descriptor[2].name
    /\ descriptor[3].name = descriptor[1].name
    /\ lookup.value = descriptor[1].value
    /\ lookup.found = <<descriptor[1].name>>

(***************************************************************************)
(* What the claims about the encoder speak of.                             *)
(***************************************************************************)
\* serialize or to_json returned
Encoded == status = "returned" /\ call.op \in {"serialize", "to_json"}

\* the text the last call appended to the buffer it found
Appended == SubSeq(writer.buffer, Len(call.before) + 1, Len(writer.buffer))

\* the text of value alone, in a writer of its own
Text(t, value) == serialize(Enter(json_writer(<<>>), 0), t, value).out.buffer

\* view as write_escaped writes it into an empty writer
Quoted(view) == write_escaped(Enter(json_writer(<<>>), 0), view).out.buffer

RECURSIVE Join(_, _)
Join(texts, sep) ==
    IF texts = <<>> THEN <<>>
    ELSE IF Len(texts) = 1 THEN texts[1]
    ELSE texts[1] \o sep \o Join(Tail(texts), sep)

RECURSIVE Concat(_)
Concat(seqs) == IF seqs = <<>> THEN <<>> ELSE Head(seqs) \o Concat(Tail(seqs))

(***************************************************************************)
(* C1.  The flattened field order of serialize_object.                     *)
(***************************************************************************)
\* the flattened field list of an object of class c: for each base in declared
\* order its flattened list, then the own fields in declared order
RECURSIVE FlatFields(_, _)
FlatFields(c, object) ==
    LET d == type_description(c)
        nb == Len(d.bases)
    IN  Concat([i \in 1..nb |-> FlatFields(d.bases[i], object.kids[i])])
          \o [j \in 1..Len(d.fields) |->
                [name |-> d.fields[j].name, type |-> d.fields[j].type,
                 value |-> object.kids[nb + j]]]

\* "name":value
Member(f) == Quoted(f.name) \o <<":">> \o Text(f.type, f.value)

\* C1: the text of an object is { and }, and between them, separated by commas,
\* "name":value once for every field of the flattened list, in its order:
\* base fields (bases in declared order, each flattened, bases before own)
\* before own fields, a repeated name emitted each time.
C1_FlattenedFieldOrder ==
    (Encoded /\ call.type.k = "class") =>
        LET flat == FlatFields(call.type.id, call.value)
        IN  Appended = <<"{">> \o Join([i \in 1..Len(flat) |-> Member(flat[i])], <<",">>)
                         \o <<"}">>

\* an object with two bases, a base of a base and repeated field names was
\* encoded
C1_Witness ==
    /\ Encoded
    /\ call.type = ObjT(Bottom)
    /\ LET flat == FlatFields(Bottom, call.value)
       IN  /\ Len(flat) = 5
           /\ flat[1].name = flat[3].name
           /\ flat[2].name = flat[5].name

(***************************************************************************)
(* C2.  The category dispatch.                                             *)
(***************************************************************************)
CategoryOrder ==
    << "boolean", "integer", "floating", "string", "enumeration", "map",
       "sequence", "optional", "result", "variant", "object" >>

\* the qualifying condition of each category, taken alone
Qualifies(t, category) ==
    CASE category = "boolean" -> t.k = "bool"
      [] category = "integer" -> t.k \in {"int", "char"}
      [] category = "floating" -> t.k = "double"
      [] category = "string" -> t.k = "string"
      [] category = "enumeration" -> t.k = "enum"
      [] category = "map" -> is_range(t) /\ range_value_t(t).k = "pair"
      [] category = "sequence" -> is_range(t)
      [] category = "optional" -> t.k = "optional"
      [] category = "result" -> t.k = "expected"
      [] category = "variant" -> t.k = "variant"
      [] category = "object" -> t.k = "class" /\ has_custom_reflect(t.id)

\* the first category of the order the type qualifies for
FirstCategory(t) ==
    IF \E i \in 1..Len(CategoryOrder) : Qualifies(t, CategoryOrder[i])
    THEN CategoryOrder[CHOOSE i \in 1..Len(CategoryOrder) :
                          /\ Qualifies(t, CategoryOrder[i])
                          /\ \A j \in 1..(i - 1) : ~Qualifies(t, CategoryOrder[j])]
    ELSE "none"

\* the types whose values a value of type t holds
Components(t) ==
    LET c == FirstCategory(t)
    IN  CASE c = "map" -> {range_value_t(t).args[2]}
          [] c = "sequence" -> {range_value_t(t)}
          [] c \in {"optional", "result", "variant"} -> {t.args[i] : i \in 1..Len(t.args)}
          [] c = "object" -> FlatFieldTypes(t.id)
          [] OTHER -> {}

\* t and every type reached from it has a category, and every map-like one
\* a string-like key
RECURSIVE Encodable(_)
Encodable(t) ==
    /\ FirstCategory(t) # "none"
    /\ FirstCategory(t) = "map" => Qualifies(range_value_t(t).args[1], "string")
    /\ \A u \in Components(t) : Encodable(u)

\* C2: a value is encoded by the rule of the first category of the fixed order
\* that its type qualifies for; a type that has no category or is map-like with
\* a key that is not string-like (itself or a type it holds) is rejected before
\* any value is encoded or anything written, and every other type is accepted.
C2_FirstCategoryWins ==
    /\ Encoded =>
          /\ Encodable(call.type)
          /\ Appended = Branch(FirstCategory(call.type), Enter(json_writer(<<>>), 0),
                               call.type, call.value).out.buffer
    /\ status = "ill_formed" =>
          /\ ~Encodable(call.type)
          /\ call.value = NoValue
          /\ writer.buffer = call.before
          /\ error = NoError
    /\ status = "thrown" => Encodable(call.type)

\* a value of a type that qualifies as map-like and as sequence-like, holding
\* two entries, was encoded
C2_Witness ==
    /\ Encoded
    /\ Qualifies(call.type, "map")
    /\ Qualifies(call.type, "sequence")
    /\ Len(call.value.kids) = 2

(***************************************************************************)
(* C3.  Enumerations.                                                      *)
(***************************************************************************)
\* the cases registered for enumeration e: none when it has no descriptor
Registered(e) == IF has_custom_enum_reflect(e) THEN reflect_enum(e) ELSE <<>>

DigitValue(c) ==
    CASE c = "0" -> 0 [] c = "1" -> 1 [] c = "2" -> 2 [] c = "3" -> 3 [] c = "4" -> 4
      [] c = "5" -> 5 [] c = "6" -> 6 [] c = "7" -> 7 [] c = "8" -> 8 [] c = "9" -> 9
      [] OTHER -> -1

\* text is a decimal numeral: an optional minus sign, then digits with no
\* leading zero unless it is 0 itself
IsDecimal(text) ==
    LET digits == IF text # <<>> /\ text[1] = "-" THEN Tail(text) ELSE text
    IN  /\ digits # <<>>
        /\ \A i \in 1..Len(digits) : DigitValue(digits[i]) >= 0
        /\ Len(digits) > 1 => digits[1] # "0"
        /\ digits = <<"0">> => text = digits

RECURSIVE DigitsValue(_)
DigitsValue(digits) ==
    IF digits = <<>> THEN 0
    ELSE 10 * DigitsValue(SubSeq(digits, 1, Len(digits) - 1))
           + DigitValue(digits[Len(digits)])

\* the integer a decimal numeral denotes
DecimalValue(text) ==
    IF text[1] = "-" THEN -DigitsValue(Tail(text)) ELSE DigitsValue(text)

\* C3: an enumeration value is encoded as the quoted, escaped name of the first
\* registered case of its discriminant when there is one, and otherwise (no
\* such case, or no descriptor at all) as the decimal text of its underlying
\* integer; the call returns in either case.
C3_EnumNameOrNumber ==
    (call.op \in {"serialize", "to_json"} /\ call.type.k = "enum") =>
        LET cases == Registered(call.type.id)
            i == FirstOfValue(cases, call.value.n)
        IN  /\ status = "returned"
            /\ error = NoError
            /\ i # 0 => Appended = Quoted(cases[i].name)
            /\ i = 0 => IsDecimal(Appended) /\ DecimalValue(Appended) = call.value.n

\* a value of a registered enumeration with no case of its discriminant was
\* encoded as a negative number
C3_Witness ==
    /\ Encoded
    /\ call.type = EnumT(Tone)
    /\ call.value.n = -1
    /\ Appended = <<"-", "1">>

(***************************************************************************)
(* C5.  std::expected.                                                     *)
(***************************************************************************)
StateKey == <<QUOTE, "s", "t", "a", "t", "e", QUOTE>>
ValueKey == <<QUOTE, "v", "a", "l", "u", "e", QUOTE>>
ErrorKey == <<QUOTE, "e", "r", "r", "o", "r", QUOTE>>
IndexKey == <<QUOTE, "i", "n", "d", "e", "x", QUOTE>>

\* C5: an expected is encoded as {"state":"value","value":V} when it holds a
\* value and as {"state":"error","error":E} when it holds an error, V and E
\* the encoding of the payload: state first, then the one payload field, whose
\* name is the state string.
C5_ExpectedStateThenPayload ==
    (Encoded /\ call.type.k = "expected") =>
        LET key == IF call.value.n = 1 THEN ValueKey ELSE ErrorKey
            pt == IF call.value.n = 1 THEN call.type.args[1] ELSE call.type.args[2]
        IN  Appended = <<"{">> \o StateKey \o <<":">> \o key \o <<",">> \o key \o <<":">>
                         \o Text(pt, call.value.kids[1]) \o <<"}">>

\* an expected holding an error was encoded
C5_Witness ==
    /\ Encoded
    /\ call.type = ExpectedT(IntT, StringT)
    /\ call.value.n = 0
    /\ call.value.kids[1].s # <<>>

(***************************************************************************)
(* C6.  std::variant.                                                      *)
(***************************************************************************)
\* C6: a variant is encoded as {"index":I,"value":V}, I the decimal text of
\* the zero-based index of the active alternative and V the encoding of that
\* alternative's payload as a value of that alternative's type.
C6_VariantIndexThenValue ==
    (Encoded /\ call.type.k = "variant") =>
        \E index \in 0..(Len(call.type.args) - 1) :
            /\ index = call.value.n
            /\ \E digits \in {SubSeq(Appended, 10, j) : j \in 10..Len(Appended)} :
                  /\ IsDecimal(digits)
                  /\ DecimalValue(digits) = index
                  /\ Appended = <<"{">> \o IndexKey \o <<":">> \o digits \o <<",">>
                                  \o ValueKey \o <<":">>
                                  \o Text(call.type.args[index + 1], call.value.kids[1])
                                  \o <<"}">>

\* a variant of three alternatives holding its last one was encoded
C6_Witness ==
    /\ Encoded
    /\ call.type.k = "variant"
    /\ Len(call.type.args) = 3
    /\ call.value.n = 2

(***************************************************************************)
(* C7.  std::optional.                                                     *)
(***************************************************************************)
\* C7: an optional holding x is encoded exactly as x is, and an empty optional
\* as null.
C7_OptionalTransparent ==
    (Encoded /\ call.type.k = "optional") =>
        IF call.value.kids = <<>>
        THEN Appended = <<"n", "u", "l", "l">>
        ELSE Appended = Text(call.type.args[1], call.value.kids[1])

\* an optional holding an optional holding an integer was encoded
C7_Witness ==
    /\ Encoded
    /\ call.type = OptionalT(OptionalT(IntT))
    /\ call.value.kids # <<>>
    /\ call.value.kids[1].kids # <<>>
    /\ Appended = Text(IntT, call.value.kids[1].kids[1])

(***************************************************************************)
(* C8.  Delimiters and commas.                                             *)
(***************************************************************************)
\* the backslashes that stand in a row right before position j
Backslashes(text, j) ==
    LET stops == {k \in 1..(j - 1) : text[k] # BACKSLASH}
        last == IF stops = {} THEN 0 ELSE CHOOSE k \in stops : \A m \in stops : m <= k
    IN  j - 1 - last

\* position j holds a quote that no backslash escapes: it opens or closes a
\* string literal
Bare(text, j) == text[j] = QUOTE /\ Backslashes(text, j) % 2 = 0

\* text with every byte of a string literal, its quotes included, replaced
\* by "s"
Skeleton(text) ==
    [i \in 1..Len(text) |->
        IF Bare(text, i) \/ Cardinality({j \in 1..(i - 1) : Bare(text, j)}) % 2 = 1
        THEN "s" ELSE text[i]]

Count(text, chars) == Cardinality({i \in 1..Len(text) : text[i] \in chars})

RECURSIVE Sum(_)
Sum(numbers) == IF numbers = <<>> THEN 0 ELSE Head(numbers) + Sum(Tail(numbers))

\* the members of a collection, each as it is emitted
Members(t, value) ==
    LET c == FirstCategory(t)
    IN  CASE c = "sequence" ->
                [i \in 1..Len(value.kids) |-> Text(range_value_t(t), value.kids[i])]
          [] c = "map" ->
                [i \in 1..Len(value.kids) |->
                    Quoted(value.kids[i].kids[1].s) \o <<":">>
                      \o Text(range_value_t(t).args[2], value.kids[i].kids[2])]
          [] c = "object" ->
                LET flat == FlatFields(t.id, value)
                IN  [i \in 1..Len(flat) |-> Member(flat[i])]

\* the commas of the encoding of a value that stand outside string literals:
\* one less than its members for every collection with members
RECURSIVE Commas(_, _)
Commas(t, value) ==
    LET c == FirstCategory(t)
        own(n) == IF n = 0 THEN 0 ELSE n - 1
    IN  CASE c = "sequence" ->
                own(Len(value.kids))
                  + Sum([i \in 1..Len(value.kids) |->
                            Commas(range_value_t(t), value.kids[i])])
          [] c = "map" ->
                own(Len(value.kids))
                  + Sum([i \in 1..Len(value.kids) |->
                            Commas(range_value_t(t).args[2], value.kids[i].kids[2])])
          [] c = "object" ->
                LET flat == FlatFields(t.id, value)
                IN  own(Len(flat))
                      + Sum([i \in 1..Len(flat) |-> Commas(flat[i].type, flat[i].value)])
          [] c = "optional" ->
                IF value.kids = <<>> THEN 0 ELSE Commas(t.args[1], value.kids[1])
          [] c = "result" ->
                1 + Commas(IF value.n = 1 THEN t.args[1] ELSE t.args[2], value.kids[1])
          [] c = "variant" -> 1 + Commas(t.args[value.n + 1], value.kids[1])
          [] OTHER -> 0

\* C8: an array, a map or an object is its opening delimiter, its members in
\* iteration order separated by single commas (a map's as escaped key, colon,
\* value), and the matching closing delimiter, so [] or {} when it is empty;
\* and at every nesting level of any encoding no comma follows an opening
\* delimiter or a comma or precedes a closing delimiter, and the commas
\* outside strings are as many as the collections' members require.
C8_DelimitersAndCommas ==
    Encoded =>
        LET c == FirstCategory(call.type)
            sk == Skeleton(Appended)
        IN  /\ c \in {"sequence", "map", "object"} =>
                  Appended = (IF c = "sequence" THEN <<"[">> ELSE <<"{">>)
                               \o Join(Members(call.type, call.value), <<",">>)
                               \o (IF c = "sequence" THEN <<"]">> ELSE <<"}">>)
            /\ \A i \in 1..Len(sk) :
                  sk[i] = "," =>
                      /\ 1 < i /\ i < Len(sk)
                      /\ sk[i - 1] \notin {"[", "{", ",", ":"}
                      /\ sk[i + 1] \notin {"]", "}", ",", ":"}
            /\ Count(sk, {","}) = Commas(call.type, call.value)
            /\ Count(sk, {"[", "{"}) = Count(sk, {"]", "}"})

\* an array of two arrays, the first of them empty, was encoded
C8_Witness ==
    /\ Encoded
    /\ call.type = VectorT(VectorT(IntT))
    /\ Len(call.value.kids) = 2
    /\ call.value.kids[1].kids = <<>>
    /\ call.value.kids[2].kids # <<>>
    /\ Count(Appended, {","}) = 1

(***************************************************************************)
(* C9.  write_escaped.                                                     *)
(***************************************************************************)
\* what takes the place of a byte
Replacement(c) ==
    IF c = BACKSLASH THEN <<BACKSLASH, BACKSLASH>>
    ELSE IF c = QUOTE THEN <<BACKSLASH, QUOTE>>
    ELSE IF c = LF THEN <<BACKSLASH, "n">>
    ELSE IF c = CR THEN <<BACKSLASH, "r">>
    ELSE IF c = TAB THEN <<BACKSLASH, "t">>
    ELSE <<c>>

\* the bytes the body of a string literal denotes; "invalid" ends the result
\* of a body with a quote that no backslash escapes, a backslash at its end
\* or an escape sequence that is none of the five
RECURSIVE Unescape(_, _, _)
Unescape(body, i, acc) ==
    IF i > Len(body) THEN acc
    ELSE IF body[i] = QUOTE THEN Append(acc, "invalid")
    ELSE IF body[i] # BACKSLASH THEN Unescape(body, i + 1, Append(acc, body[i]))
    ELSE IF i = Len(body) THEN Append(acc, "invalid")
    ELSE LET e == body[i + 1]
             c == CASE e = BACKSLASH -> BACKSLASH
                    [] e = QUOTE -> QUOTE
                    [] e = "n" -> LF
                    [] e = "r" -> CR
                    [] e = "t" -> TAB
                    [] OTHER -> "invalid"
         IN  IF c = "invalid" THEN Append(acc, c)
             ELSE Unescape(body, i + 2, Append(acc, c))

\* C9: write_escaped(s) appends a quote, the bytes of s with backslash, quote,
\* newline, carriage return and tab replaced by their two-byte sequences and
\* every other byte copied, and a quote; the bytes between the quotes hold no
\* quote that is not escaped and decode to s.
C9_EscapeRoundTrip ==
    call.op = "write_escaped" =>
        LET n == Len(Appended)
            body == SubSeq(Appended, 2, n - 1)
        IN  /\ n >= 2
            /\ Appended[1] = QUOTE
            /\ Appended[n] = QUOTE
            /\ body = Concat([i \in 1..Len(call.view) |-> Replacement(call.view[i])])
            /\ Unescape(body, 1, <<>>) = call.view
            /\ writer.buffer = call.before \o Appended

\* a view of a backslash followed by the letter of an escape was written
C9_Witness ==
    /\ call.op = "write_escaped"
    /\ call.view = <<BACKSLASH, "n">>
    /\ Appended = <<QUOTE, BACKSLASH, BACKSLASH, "n", QUOTE>>

(***************************************************************************)
(* C10.  A numeric conversion that fails.                                  *)
(***************************************************************************)
\* the numeric-to-text conversions of the encoding of a value
RECURSIVE Conversions(_, _)
Conversions(t, value) ==
    LET c == FirstCategory(t)
    IN  CASE c \in {"integer", "floating"} -> 1
          [] c = "enumeration" ->
                IF FirstOfValue(Registered(t.id), value.n) = 0 THEN 1 ELSE 0
          [] c = "sequence" ->
                Sum([i \in 1..Len(value.kids) |->
                        Conversions(range_value_t(t), value.kids[i])])
          [] c = "map" ->
                Sum([i \in 1..Len(value.kids) |->
                        Conversions(range_value_t(t).args[2], value.kids[i].kids[2])])
          [] c = "object" ->
                LET flat == FlatFields(t.id, value)
                IN  Sum([i \in 1..Len(flat) |-> Conversions(flat[i].type, flat[i].value)])
          [] c = "optional" ->
                IF value.kids = <<>> THEN 0 ELSE Conversions(t.args[1], value.kids[1])
          [] c = "result" ->
                Conversions(IF value.n = 1 THEN t.args[1] ELSE t.args[2], value.kids[1])
          [] c = "variant" -> 1 + Conversions(t.args[value.n + 1], value.kids[1])
          [] OTHER -> 0

IsPrefix(p, q) == Len(p) <= Len(q) /\ p = SubSeq(q, 1, Len(p))

\* C10: a call in which a numeric conversion fails ends by a
\* serialization_error with a message and a source location, and does not
\* return; what it appended to the writer is a proper prefix of the value's
\* encoding that is empty or leaves a delimiter open, so no document; to_json
\* returns nothing.  A call in which none fails returns.
C10_FailedConversionIsReported ==
    (call.op \in {"serialize", "to_json"} /\ status # "ill_formed") =>
        LET failed == call.fault \in 1..Conversions(call.type, call.value)
            sk == Skeleton(Appended)
        IN  /\ failed =>
                  /\ status = "thrown"
                  /\ error.message \in {"integral conversion failed",
                                        "floating conversion failed"}
                  /\ error.message # ""
                  /\ error.where > 0
                  /\ result = <<>>
                  /\ writer.buffer = call.before \o Appended
                  /\ IsPrefix(Appended, Text(call.type, call.value))
                  /\ Appended # Text(call.type, call.value)
                  /\ \/ Appended = <<>>
                     \/ Count(sk, {"[", "{"}) > Count(sk, {"]", "}"})
                  /\ call.op = "to_json" => writer.buffer = <<>>
            /\ ~failed => status = "returned" /\ error = NoError

\* the second conversion of a call failed, inside a nested array, on a writer
\* that held text
C10_Witness ==
    /\ status = "thrown"
    /\ call.op = "serialize"
    /\ call.before # <<>>
    /\ call.type = VectorT(VectorT(IntT))
    /\ call.fault = 2
    /\ Appended = <<"[", "[", "3", "]", ",", "[">>

(***************************************************************************)
(* C11.  Concurrent calls on separate writers.                             *)
(***************************************************************************)
\* what the call of caller i has written is the start of the text of its own
\* value, and the bytes it has still to write are the rest of it
OwnText(i) ==
    threads[WriterOf(i)].out.buffer \o threads[i].todo
        = Text(threads[i].type, threads[i].value)

\* C11: however the steps of concurrent to_json calls interleave, every call
\* returns the text the same call gives when it runs alone; while it runs its
\* writer holds bytes of its own text only; a step changes the state of the
\* caller that takes it and of no other; and the value a caller passed is
\* the same at every step of its call and after it.
C11_ConcurrentCallsIsolated ==
    /\ [](\A i \in Threads :
            /\ threads[i].status = "running" => OwnText(i)
            /\ threads[i].status = "returned" =>
                  threads[i].result = <<Text(threads[i].type, threads[i].value)>>)
    /\ [][/\ \E i \in Threads : \A j \in Threads \ {i} : threads'[j] = threads[j]
          /\ \A i \in Threads :
                (threads[i].status = "running") =>
                    /\ threads'[i].type = threads[i].type
                    /\ threads'[i].value = threads[i].value]_vars

\* two calls on different values are both under way, each with a part of its
\* text written and a part still to write
C11_Witness ==
    /\ threads[1].status = "running"
    /\ threads[2].status = "running"
    /\ threads[1].value # threads[2].value
    /\ \A i \in {1, 2} : threads[i].out.buffer # <<>> /\ threads[i].todo # <<>>

(***************************************************************************)
(* C12.  serialize appends.                                                *)
(***************************************************************************)
\* the step is a call of serialize that returned
Serialized == call'.op = "serialize" /\ status' = "returned"

\* C12: a serialize call that returns leaves the buffer it found, followed by
\* the text to_json gives for its value; after two such calls in a row the
\* buffer is what the first found, then the text of the first value, then the
\* text of the second; and str() returns the buffer and leaves the writer as
\* it was.
C12_SerializeAppends ==
    [][/\ Serialized =>
            /\ call'.before = writer.buffer
            /\ writer'.buffer = writer.buffer \o Text(call'.type, call'.value)
            /\ (call.op = "serialize" /\ status = "returned") =>
                  writer'.buffer = call.before \o Text(call.type, call.value)
                                     \o Text(call'.type, call'.value)
       /\ call'.op = "str" => writer' = writer /\ result' = <<writer.buffer>>]_vars

\* an array of two arrays was serialized into a writer that held the text of
\* an earlier call
C12_Witness ==
    /\ status = "returned"
    /\ call.op = "serialize"
    /\ call.before # <<>>
    /\ call.type = VectorT(VectorT(IntT))
    /\ Len(call.value.kids) = 2
    /\ call.value.kids[2].kids # <<>>
    /\ writer.buffer = call.before \o Appended
    /\ Len(Appended) > 4

====
